---- MODULE Spec2Model ----
(***************************************************************************)
(* tsm, the tmux session manager: one process run after another against    *)
(* the same config file and the same tmux server.  Strings are sequences   *)
(* of runes (code points), so that suffix matching, trimming, path         *)
(* handling and identifier cleaning are computed, not assumed.             *)
(***************************************************************************)
EXTENDS Integers, Sequences, FiniteSets, TLC

VARIABLES
    pc,         \* position of the running process in main/run and its callees
    runs,       \* number of the current process run
    cfgFile,    \* the config file {config dir}/tsm/config.json on disk
    sessions,   \* the tmux server: set of [id, dir] of the sessions it holds
    arg0,       \* flag.Arg(0) of the current run
    config,     \* the Config value readConfig returned
    i,          \* index of the next base directory in listDirectories' loop
    paths,      \* listDirectories' local slice `paths`
    listed,     \* the slice handed to removeIgnoredDirs, as the loop built it
    targetDir,  \* run-local targetDir
    id,         \* run-local session id
    tmuxEnv,    \* what os.LookupEnv("TMUX") returned: [value, ok]
    trace,      \* every file, directory and process operation of this run, in order
    err,        \* the error run() returns ("nil" for none)
    exitCode,   \* the process's exit code, -1 while it runs
    printed     \* what main printed on standard output ("" for nothing)

vars == <<pc, runs, cfgFile, sessions, arg0, config, i, paths, listed,
          targetDir, id, tmuxEnv, trace, err, exitCode, printed>>

-----------------------------------------------------------------------------
(* Bounds of the model.                                                    *)
MaxRuns == 2        \* process runs in a row against the same server
MaxBaseDirs == 2    \* entries of base_dirs in the config file
MaxIgnore == 2      \* entries of ignore_dirs in the config file

(* Runes the source names.                                                 *)
LowerA == 97
LowerZ == 122
UpperA == 65
UpperZ == 90
Digit0 == 48
Digit9 == 57
Hyphen == 45
Underscore == 95

(* Strings of the modelled world, as rune sequences.                       *)
Empty == << >>
NL == <<10>>                        \* "\n"
StrZero == <<48>>                   \* "0"
StrOne == <<49>>                    \* "1"
StrZeroZero == <<48, 48>>           \* "00"
DirA == <<47, 97>>                  \* "/a"
DirB == <<47, 98, 47>>              \* "/b/"
HomeDir == <<47, 104>>              \* "/h"
NameGit == <<46, 103, 105, 116>>    \* ".git"
NameMixed == <<90, 233, 45, 48>>    \* "Zé-0"
NameFile == <<102>>                 \* "f"
NameSpace == <<112, 32, 113>>       \* "p q"
NameUnder == <<112, 95, 113>>       \* "p_q"
SuffixQ == <<113>>                  \* "q"

Range(s) == {s[k] : k \in 1..Len(s)}

SeqsUpTo(S, n) == UNION {[1..k -> S] : k \in 0..n}

-----------------------------------------------------------------------------
(* Library functions the program calls, computed on rune sequences.        *)

\* strings.HasSuffix
HasSuffix(s, suffix) ==
    /\ Len(s) >= Len(suffix)
    /\ SubSeq(s, Len(s) - Len(suffix) + 1, Len(s)) = suffix

\* unicode.IsSpace on the runes strings.TrimSpace strips
IsSpace(r) == r \in {9, 10, 11, 12, 13, 32, 133, 160}

\* strings.TrimSpace
TrimSpace(s) ==
    LET keep == {k \in 1..Len(s) : ~IsSpace(s[k])}
    IN IF keep = {} THEN Empty
       ELSE LET lo == CHOOSE k \in keep : \A m \in keep : k <= m
                hi == CHOOSE k \in keep : \A m \in keep : k >= m
            IN SubSeq(s, lo, hi)

\* path.Clean on paths without "." and ".." elements: repeated slashes
\* collapse, a trailing slash goes unless the path is the root, "" is ".".
RECURSIVE Collapse(_)
Collapse(s) ==
    IF Len(s) <= 1 THEN s
    ELSE IF s[1] = 47 /\ s[2] = 47 THEN Collapse(Tail(s))
    ELSE <<s[1]>> \o Collapse(Tail(s))

Clean(s) ==
    LET c == Collapse(s)
    IN IF c = Empty THEN <<46>>
       ELSE IF Len(c) > 1 /\ c[Len(c)] = 47 THEN SubSeq(c, 1, Len(c) - 1)
       ELSE c

\* path.Join of two elements: empty elements are dropped, the rest joined
\* with a slash and cleaned.
Join(a, b) ==
    IF a = Empty /\ b = Empty THEN Empty
    ELSE IF a = Empty THEN Clean(b)
    ELSE IF b = Empty THEN Clean(a)
    ELSE Clean(a \o <<47>> \o b)

\* path.Base
RECURSIVE StripSlashes(_)
StripSlashes(s) ==
    IF Len(s) > 0 /\ s[Len(s)] = 47 THEN StripSlashes(SubSeq(s, 1, Len(s) - 1))
    ELSE s

Base(p) ==
    IF p = Empty THEN <<46>>
    ELSE LET s == StripSlashes(p)
             slashes == {k \in 1..Len(s) : s[k] = 47}
             last == IF slashes = {} THEN 0
                     ELSE CHOOSE k \in slashes : \A m \in slashes : k >= m
             b == SubSeq(s, last + 1, Len(s))
         IN IF b = Empty THEN <<47>> ELSE b

-----------------------------------------------------------------------------
(* Pure functions of the program.                                          *)

characterAllowedDot(r) ==
    \/ (r >= LowerA /\ r <= LowerZ)
    \/ (r >= UpperA /\ r <= UpperZ)
    \/ (r >= Digit0 /\ r <= Digit9)
    \/ r = Hyphen
    \/ r = Underscore
    \/ r = 46

characterAllowed(r) ==
    \/ (r >= LowerA /\ r <= LowerZ)
    \/ (r >= UpperA /\ r <= UpperZ)
    \/ (r >= Digit0 /\ r <= Digit9)
    \/ r = Hyphen
    \/ r = Underscore

cleanID(s) ==
    [k \in 1..Len(s) |-> IF characterAllowed(s[k]) THEN s[k] ELSE Underscore]

\* the predicate removeIgnoredDirs hands to slices.DeleteFunc
ignoredPath(path, c) ==
    \E k \in 1..Len(c.ignore_dirs) : HasSuffix(path, c.ignore_dirs[k])

removeIgnoredDirsFirstOnly(ps, c) ==
    LET keep(p) == ~(Len(c.ignore_dirs) > 0 /\ HasSuffix(p, c.ignore_dirs[1]))
    IN SelectSeq(ps, keep)

removeIgnoredDirs(ps, c) ==
    LET keep(p) == ~ignoredPath(p, c)
    IN SelectSeq(ps, keep)

-----------------------------------------------------------------------------
(* The world outside the process.                                          *)

EmptyConfig == [base_dirs |-> Empty, ignore_dirs |-> Empty]

\* flag.Arg(0): "" when there is no positional argument
Args == {Empty, StrZero, StrOne, StrZeroZero}

\* what the config file can hold when a run starts
CfgFiles ==
    {[st |-> s, base_dirs |-> Empty, ignore_dirs |-> Empty] :
        s \in {"nodir", "absent", "malformed"}}
    \cup
    {[st |-> "valid", base_dirs |-> b, ignore_dirs |-> g] :
        b \in SeqsUpTo({DirA, DirB}, MaxBaseDirs),
        g \in SeqsUpTo({Empty, NameGit, SuffixQ}, MaxIgnore)}

Entry(name, isDir) == [name |-> name, isDir |-> isDir]

\* what os.ReadDir can return for a base directory: entries sorted by name
Listings ==
    { << >>,
      <<Entry(NameGit, TRUE), Entry(NameFile, FALSE), Entry(NameSpace, TRUE)>>,
      <<Entry(NameMixed, TRUE), Entry(NameUnder, TRUE)>>,
      <<Entry(NameUnder, TRUE)>> }

\* os.LookupEnv("TMUX"): unset, set to the empty string, set by a tmux client
Envs == { [value |-> "", ok |-> FALSE],
          [value |-> "", ok |-> TRUE],
          [value |-> "/tmp/tmux-0/default,1,0", ok |-> TRUE] }

\* what fzf can write on its standard output when it exits 0: one of the
\* lines it was given, or nothing
FzfOutputs(ps) == {ps[k] \o NL : k \in 1..Len(ps)} \cup {Empty, NL}

Op(op, sid, arg, res) == [op |-> op, id |-> sid, arg |-> arg, res |-> res]

TmuxOps == {"has-session", "new-session", "attach", "switch-client"}

-----------------------------------------------------------------------------
Init ==
    /\ pc = "start"
    /\ runs = 1
    /\ cfgFile \in CfgFiles
    /\ sessions = {}
    /\ arg0 = Empty
    /\ config = EmptyConfig
    /\ i = 0
    /\ paths = Empty
    /\ listed = Empty
    /\ targetDir = Empty
    /\ id = Empty
    /\ tmuxEnv = [value |-> "", ok |-> FALSE]
    /\ trace = << >>
    /\ err = "nil"
    /\ exitCode = -1
    /\ printed = ""

\* `return e` out of run(), back in main
Return(e) ==
    /\ pc' = "returned"
    /\ err' = e

\* flag.Parse: -h prints the usage and exits 0; otherwise the first
\* positional argument is kept
FlagParse ==
    /\ pc = "start"
    /\ \E help \in BOOLEAN, a \in Args :
        IF help
        THEN /\ printed' = "usage"
             /\ exitCode' = 0
             /\ pc' = "done"
             /\ UNCHANGED arg0
        ELSE /\ arg0' = a
             /\ pc' = "getConfigPath"
             /\ UNCHANGED <<printed, exitCode>>
    /\ UNCHANGED <<runs, cfgFile, sessions, config, i, paths, listed,
                   targetDir, id, tmuxEnv, trace, err>>

GetConfigPath ==
    /\ pc = "getConfigPath"
    /\ \E ok \in BOOLEAN :
        IF ok
        THEN /\ trace' = Append(trace, Op("user-config-dir", Empty, Empty, "ok"))
             /\ pc' = "readConfig"
             /\ UNCHANGED err
        ELSE /\ trace' = Append(trace, Op("user-config-dir", Empty, Empty, "fail"))
             /\ Return("config-dir")
    /\ UNCHANGED <<runs, cfgFile, sessions, arg0, config, i, paths, listed,
                   targetDir, id, tmuxEnv, exitCode, printed>>

\* os.WriteFile(configPath, ...): it creates the file, never its directory
writeFileFails(file, ioError) == file.st = "nodir" \/ ioError

\* readConfig with writeConfig
ReadConfig ==
    /\ pc = "readConfig"
    /\ \E readError \in BOOLEAN, writeError \in BOOLEAN :
        IF cfgFile.st \in {"nodir", "absent"}
        THEN \* os.ReadFile: ErrNotExist
             IF writeFileFails(cfgFile, writeError)
             THEN /\ trace' = trace \o <<Op("readfile", Empty, Empty, "notexist"),
                                         Op("writefile", Empty, Empty, "fail")>>
                  /\ config' = EmptyConfig
                  /\ Return("write")
                  /\ UNCHANGED cfgFile
             ELSE /\ trace' = trace \o <<Op("readfile", Empty, Empty, "notexist"),
                                         Op("writefile", Empty, Empty, "ok")>>
                  /\ cfgFile' = [st |-> "valid", base_dirs |-> Empty,
                                 ignore_dirs |-> Empty]
                  /\ config' = EmptyConfig
                  /\ pc' = "dispatch"
                  /\ UNCHANGED err
        ELSE IF readError
        THEN /\ trace' = Append(trace, Op("readfile", Empty, Empty, "fail"))
             /\ Return("read")
             /\ UNCHANGED <<cfgFile, config>>
        ELSE IF cfgFile.st = "malformed"
        THEN /\ trace' = trace \o <<Op("readfile", Empty, Empty, "ok"),
                                    Op("unmarshal", Empty, Empty, "fail")>>
             /\ Return("parse")
             /\ UNCHANGED <<cfgFile, config>>
        ELSE /\ trace' = trace \o <<Op("readfile", Empty, Empty, "ok"),
                                    Op("unmarshal", Empty, Empty, "ok")>>
             /\ config' = [base_dirs |-> cfgFile.base_dirs,
                           ignore_dirs |-> cfgFile.ignore_dirs]
             /\ pc' = "dispatch"
             /\ UNCHANGED <<cfgFile, err>>
    /\ UNCHANGED <<runs, sessions, arg0, i, paths, listed, targetDir, id,
                   tmuxEnv, exitCode, printed>>

dispatchAnyArg(a) == IF a # Empty THEN "zero" ELSE "list"

\* run's switch on flag.Arg(0)
dispatch(a) == IF a = StrZero THEN "zero" ELSE "list"

Dispatch ==
    /\ pc = "dispatch"
    /\ pc' = dispatch(arg0)
    /\ i' = 1
    /\ paths' = Empty
    /\ UNCHANGED <<runs, cfgFile, sessions, arg0, config, listed, targetDir,
                   id, tmuxEnv, trace, err, exitCode, printed>>

\* handleSwitchToZero up to the existence check
UserHomeDir ==
    /\ pc = "zero"
    /\ \E ok \in BOOLEAN :
        IF ok
        THEN /\ trace' = Append(trace, Op("user-home-dir", Empty, Empty, "ok"))
             /\ id' = StrZero
             /\ targetDir' = HomeDir
             /\ pc' = "hasSession"
             /\ UNCHANGED err
        ELSE /\ trace' = Append(trace, Op("user-home-dir", Empty, Empty, "fail"))
             /\ id' = StrZero
             /\ Return("homedir")
             /\ UNCHANGED targetDir
    /\ UNCHANGED <<runs, cfgFile, sessions, arg0, config, i, paths, listed,
                   tmuxEnv, exitCode, printed>>

\* the directories of one listing, joined to their base directory
RECURSIVE childDirs(_, _)
childDirs(baseDir, d) ==
    IF d = << >> THEN << >>
    ELSE IF ~Head(d).isDir THEN childDirs(baseDir, Tail(d))
    ELSE <<Join(baseDir, Head(d).name)>> \o childDirs(baseDir, Tail(d))

\* one iteration of listDirectories' loop
ReadDirStep ==
    /\ pc = "list"
    /\ i <= Len(config.base_dirs)
    /\ \E ok \in BOOLEAN, d \in Listings :
        LET baseDir == config.base_dirs[i] IN
        IF ok
        THEN /\ trace' = Append(trace, Op("readdir", Empty, baseDir, "ok"))
             /\ paths' = paths \o childDirs(baseDir, d)
             /\ i' = i + 1
             /\ UNCHANGED <<pc, err>>
        ELSE /\ trace' = Append(trace, Op("readdir", Empty, baseDir, "fail"))
             /\ Return("readdir")
             /\ paths' = Empty
             /\ UNCHANGED i
    /\ UNCHANGED <<runs, cfgFile, sessions, arg0, config, listed, targetDir,
                   id, tmuxEnv, exitCode, printed>>

\* the end of listDirectories: return removeIgnoredDirs(paths, config), nil
ListDirectoriesReturn ==
    /\ pc = "list"
    /\ i > Len(config.base_dirs)
    /\ listed' = paths
    /\ paths' = removeIgnoredDirs(paths, config)
    /\ pc' = "fzf"
    /\ UNCHANGED <<runs, cfgFile, sessions, arg0, config, i, targetDir, id,
                   tmuxEnv, trace, err, exitCode, printed>>

targetOfPropagate(failed, out) ==
    IF failed THEN [dir |-> Empty, err |-> "fzf"]
    ELSE [dir |-> TrimSpace(out), err |-> "nil"]

\* what getTargetDir returns once fzf has run
targetOf(failed, out) ==
    IF failed THEN [dir |-> Empty, err |-> "nil"]
    ELSE [dir |-> TrimSpace(out), err |-> "nil"]

\* getTargetDir's call of fzf, and handleSessionSwitch up to the existence check
RunFzf ==
    /\ pc = "fzf"
    /\ \E failed \in BOOLEAN, o \in FzfOutputs(paths) :
        LET out == IF failed THEN Empty ELSE o
            got == targetOf(failed, out)
        IN /\ trace' = Append(trace, Op("fzf", Empty, out,
                                        IF failed THEN "fail" ELSE "ok"))
           /\ targetDir' = got.dir
           /\ IF got.err # "nil" THEN Return(got.err) /\ UNCHANGED id
              ELSE IF got.dir = Empty THEN Return("nil") /\ UNCHANGED id
              ELSE /\ id' = cleanID(Base(got.dir))
                   /\ pc' = "hasSession"
                   /\ UNCHANGED err
    /\ paths' = Empty
    /\ listed' = Empty
    /\ UNCHANGED <<runs, cfgFile, sessions, arg0, config, i, tmuxEnv,
                   exitCode, printed>>

afterCheckAlwaysCreate(exists) == "create"

\* `if !sessionExists(id) { createSession } switchToSession`
afterCheck(exists) == IF exists THEN "switch" ELSE "create"

\* tmux has-session -t id: it can succeed only for a session the server holds
SessionExists ==
    /\ pc = "hasSession"
    /\ \E ok \in BOOLEAN :
        /\ ok => \E s \in sessions : s.id = id
        /\ trace' = Append(trace, Op("has-session", id, Empty,
                                     IF ok THEN "ok" ELSE "fail"))
        /\ pc' = afterCheck(ok)
    /\ UNCHANGED <<runs, cfgFile, sessions, arg0, config, i, paths, listed,
                   targetDir, id, tmuxEnv, err, exitCode, printed>>

afterCreateIgnoreError(ok) == IF ok THEN "switch" ELSE "switch"

\* `err = createSession(id, targetDir); if err != nil { return err }`
afterCreate(ok) == IF ok THEN "switch" ELSE "returned"

\* tmux new-session -d -s id -c targetDir: it fails on a duplicate name
CreateSession ==
    /\ pc = "create"
    /\ \E ok \in BOOLEAN :
        /\ ok => ~\E s \in sessions : s.id = id
        /\ trace' = Append(trace, Op("new-session", id, targetDir,
                                     IF ok THEN "ok" ELSE "fail"))
        /\ sessions' = IF ok THEN sessions \cup {[id |-> id, dir |-> targetDir]}
                       ELSE sessions
        /\ pc' = afterCreate(ok)
        /\ err' = IF pc' = "returned" THEN "new-session" ELSE err
    /\ UNCHANGED <<runs, cfgFile, arg0, config, i, paths, listed, targetDir,
                   id, tmuxEnv, exitCode, printed>>

switchCommandNonEmpty(env) == IF env.value # "" THEN "switch-client" ELSE "attach"

\* switchToSession's choice between switchSession and attachToSession
switchCommand(env) == IF env.ok THEN "switch-client" ELSE "attach"

SwitchToSession ==
    /\ pc = "switch"
    /\ \E env \in Envs, ok \in BOOLEAN :
        LET cmd == switchCommand(env) IN
        /\ tmuxEnv' = env
        /\ trace' = Append(trace, Op(cmd, id, Empty, IF ok THEN "ok" ELSE "fail"))
        /\ Return(IF ok THEN "nil" ELSE cmd)
    /\ UNCHANGED <<runs, cfgFile, sessions, arg0, config, i, paths, listed,
                   targetDir, id, exitCode, printed>>

mainExitZero(e) == 0

\* main's exit code: os.Exit(1) on an error, 0 when it falls off the end
mainExit(e) == IF e # "nil" THEN 1 ELSE 0

\* main: print the error and exit
MainReturn ==
    /\ pc = "returned"
    /\ pc' = "done"
    /\ exitCode' = mainExit(err)
    /\ printed' = IF err # "nil" THEN err ELSE printed
    /\ UNCHANGED <<runs, cfgFile, sessions, arg0, config, i, paths, listed,
                   targetDir, id, tmuxEnv, trace, err>>

\* the user starts tsm again: a new process, the same file and server
NextRun ==
    /\ pc = "done"
    /\ runs < MaxRuns
    /\ runs' = runs + 1
    /\ pc' = "start"
    /\ arg0' = Empty
    /\ config' = EmptyConfig
    /\ i' = 0
    /\ paths' = Empty
    /\ listed' = Empty
    /\ targetDir' = Empty
    /\ id' = Empty
    /\ tmuxEnv' = [value |-> "", ok |-> FALSE]
    /\ trace' = << >>
    /\ err' = "nil"
    /\ exitCode' = -1
    /\ printed' = ""
    /\ UNCHANGED <<cfgFile, sessions>>

Next ==
    \/ FlagParse
    \/ GetConfigPath
    \/ ReadConfig
    \/ Dispatch
    \/ UserHomeDir
    \/ ReadDirStep
    \/ ListDirectoriesReturn
    \/ RunFzf
    \/ SessionExists
    \/ CreateSession
    \/ SwitchToSession
    \/ MainReturn
    \/ NextRun

Spec == Init /\ [][Next]_vars

-----------------------------------------------------------------------------
(* Vocabulary of the properties.                                           *)

TmuxIdx == {k \in 1..Len(trace) : trace[k].op \in TmuxOps}
ConnectIdx == {k \in 1..Len(trace) : trace[k].op \in {"attach", "switch-client"}}
OpIdx(op) == {k \in 1..Len(trace) : trace[k].op = op}
Finished == pc \in {"returned", "done"}

\* the character class [A-Za-z0-9_-]
IdRunes == (97..122) \cup (65..90) \cup (48..57) \cup {95, 45}

\* P ends with S: P is some string followed by S
EndsWith(P, S) == \E k \in 0..Len(P) : SubSeq(P, 1, k) \o S = P

\* the last element of a path that does not end in a slash
LastElement(P) ==
    LET k == CHOOSE n \in 0..Len(P) :
                /\ (n > 0 => P[n] = 47)
                /\ \A m \in (n + 1)..Len(P) : P[m] # 47
    IN SubSeq(P, k + 1, Len(P))

\* the candidates that end with none of the suffixes, in their order
RECURSIVE NotExcluded(_, _)
NotExcluded(ps, suffixes) ==
    IF ps = << >> THEN << >>
    ELSE IF \E S \in Range(suffixes) : EndsWith(Head(ps), S)
         THEN NotExcluded(Tail(ps), suffixes)
         ELSE <<Head(ps)>> \o NotExcluded(Tail(ps), suffixes)

-----------------------------------------------------------------------------
\* C1: once has-session has succeeded for the computed id, the run issues no
\* new-session; what follows the check is at most one attach or switch-client
\* for that id, and exactly one once the run has returned.
C1_ExistingSessionNeverCreated ==
    \A k \in OpIdx("has-session") :
        trace[k].res = "ok" =>
            /\ OpIdx("new-session") = {}
            /\ Len(trace) <= k + 1
            /\ \A m \in (k + 1)..Len(trace) :
                /\ trace[m].op \in {"attach", "switch-client"}
                /\ trace[m].id = trace[k].id
            /\ Finished => Len(trace) = k + 1

C1_Witness ==
    /\ pc = "done"
    /\ arg0 # StrZero
    /\ \E k \in OpIdx("has-session") :
        /\ trace[k].res = "ok"
        /\ Len(trace) = k + 1
        /\ trace[k + 1].op = "attach"

\* C2: a run issues at most one of attach and switch-client, for the run's
\* id: switch-client when TMUX is set (to any value, the empty one included),
\* attach when it is unset; a run that returns without error after a target
\* was chosen has issued exactly one.
C2_SwitchOrAttach ==
    /\ Cardinality(ConnectIdx) <= 1
    /\ \A k \in ConnectIdx :
        /\ trace[k].id = id
        /\ tmuxEnv.ok => trace[k].op = "switch-client"
        /\ ~tmuxEnv.ok => trace[k].op = "attach"
    /\ (Finished /\ err = "nil" /\ targetDir # Empty) => Cardinality(ConnectIdx) = 1

C2_Witness ==
    /\ pc = "done"
    /\ tmuxEnv.ok
    /\ tmuxEnv.value = ""
    /\ \E k \in ConnectIdx : trace[k].op = "switch-client" /\ trace[k].res = "ok"

\* C3: when fzf exits non-zero, or its output is empty once trimmed, the run
\* issues no tmux command, stops there, and ends with a nil error: exit code
\* 0 and nothing printed.
C3_NoSelectionNoCommand ==
    \A k \in OpIdx("fzf") :
        (trace[k].res = "fail" \/ \A n \in 1..Len(trace[k].arg) : IsSpace(trace[k].arg[n])) =>
            /\ TmuxIdx = {}
            /\ k = Len(trace)
            /\ Finished
            /\ err = "nil"
            /\ pc = "done" => (exitCode = 0 /\ printed = "")

C3_Witness ==
    /\ pc = "done"
    /\ exitCode = 0
    /\ \E k \in OpIdx("fzf") : trace[k].res = "fail"
    /\ Len(config.base_dirs) > 0

\* C4: what removeIgnoredDirs returns is exactly the candidates that end with
\* none of the configured suffixes, in their original order; an empty suffix
\* excludes every candidate and an empty suffix list excludes none.
C4_IgnoredIffSuffix ==
    pc = "fzf" =>
        /\ paths = NotExcluded(listed, config.ignore_dirs)
        /\ Empty \in Range(config.ignore_dirs) => paths = << >>
        /\ config.ignore_dirs = << >> => paths = listed

C4_Witness ==
    /\ pc = "fzf"
    /\ Len(config.ignore_dirs) = 2
    /\ paths # << >>
    /\ Len(paths) < Len(listed)
    /\ \E k \in 1..Len(listed) :
        /\ ~EndsWith(listed[k], config.ignore_dirs[1])
        /\ EndsWith(listed[k], config.ignore_dirs[2])

C6_MissingConfigCreated ==
    \A k \in OpIdx("readfile") :
        trace[k].res = "notexist" =>
            /\ cfgFile = [st |-> "valid", base_dirs |-> Empty, ignore_dirs |-> Empty]
            /\ config = EmptyConfig
            /\ err # "write"

\* C7 as stated: whatever step fails, the run stops there, the error is
\* printed and the exit code is 1.
C7_AnyFailureAborts ==
    \A k \in 1..Len(trace) :
        trace[k].res = "fail" =>
            /\ k = Len(trace)
            /\ Finished
            /\ err # "nil"
            /\ pc = "done" => (exitCode = 1 /\ printed = err)

\* C7 as amended: a failure of any step but the selector and has-session
\* stops the run there, with the error printed and exit code 1; a failed
\* selector stops the run there with exit code 0 and nothing printed; a
\* failed has-session is followed by new-session.
C7_FailureAbortsExceptSelectorAndCheck ==
    \A k \in 1..Len(trace) :
        trace[k].res = "fail" =>
            IF trace[k].op = "has-session"
            THEN /\ pc # "create" => (k < Len(trace) /\ trace[k + 1].op = "new-session")
                 /\ pc = "create" => k = Len(trace)
            ELSE /\ k = Len(trace)
                 /\ Finished
                 /\ IF trace[k].op = "fzf"
                    THEN /\ err = "nil"
                         /\ pc = "done" => (exitCode = 0 /\ printed = "")
                    ELSE /\ err # "nil"
                         /\ pc = "done" => (exitCode = 1 /\ printed = err)

C7_Witness ==
    /\ pc = "done"
    /\ exitCode = 1
    /\ printed = "readdir"
    /\ Cardinality(OpIdx("readdir")) = 2
    /\ trace[Len(trace)].op = "readdir"
    /\ trace[Len(trace)].res = "fail"
    /\ OpIdx("fzf") = {}

\* C8: after a successful run that selected directory D, the session the run
\* attached or switched to was created with D as its directory.
C8_SessionBoundToSelection ==
    (pc = "done" /\ exitCode = 0 /\ arg0 # StrZero /\ ConnectIdx # {}) =>
        \A s \in sessions : s.id = id => s.dir = targetDir

\* C9: with "0" as the first positional argument no base directory is read
\* and fzf is not run, every tmux command targets "0", and new-session comes
\* only right after a failed has-session for "0" and is bound to the home
\* directory; with any other argument, or none, the home directory is never
\* asked for and a tmux command is issued only after fzf returned a selection.
C9_ZeroFlow ==
    /\ arg0 = StrZero =>
        /\ pc \notin {"list", "fzf"}
        /\ OpIdx("fzf") = {} /\ OpIdx("readdir") = {}
        /\ \A k \in TmuxIdx : trace[k].id = StrZero
        /\ \A k \in OpIdx("new-session") :
            /\ trace[k].arg = HomeDir
            /\ k > 1
            /\ trace[k - 1] = Op("has-session", StrZero, Empty, "fail")
    /\ arg0 # StrZero =>
        /\ pc # "zero"
        /\ OpIdx("user-home-dir") = {}
        /\ (TmuxIdx # {} \/ pc = "hasSession") =>
              \E k \in OpIdx("fzf") : trace[k].res = "ok" /\ TrimSpace(trace[k].arg) = targetDir

C9_Witness ==
    /\ pc = "done"
    /\ exitCode = 0
    /\ arg0 = StrZero
    /\ \E k \in OpIdx("new-session") : trace[k].res = "ok" /\ trace[k].arg = HomeDir
    /\ [id |-> StrZero, dir |-> HomeDir] \in sessions

\* C10: the tmux commands of a run are has-session, then at most one
\* new-session, then at most one attach or switch-client, all for one id:
\* has-session comes first and once, new-session follows exactly a failed
\* has-session, and attach or switch-client follows only a command that
\* succeeded, never a failed new-session.
C10_CommandOrder ==
    LET first == IF TmuxIdx = {} THEN 0
                 ELSE CHOOSE k \in TmuxIdx : \A m \in TmuxIdx : k <= m
    IN
    /\ Cardinality(OpIdx("has-session")) <= 1
    /\ Cardinality(OpIdx("new-session")) <= 1
    /\ Cardinality(ConnectIdx) <= 1
    /\ TmuxIdx # {} =>
        /\ trace[first].op = "has-session"
        /\ TmuxIdx = first..Len(trace)
        /\ \A k \in TmuxIdx : trace[k].id = trace[first].id
        /\ \A k \in OpIdx("new-session") : k = first + 1 /\ trace[first].res = "fail"
        /\ trace[first].res = "fail" => (pc = "create" \/ OpIdx("new-session") = {first + 1})
        /\ \A k \in ConnectIdx : trace[k - 1].res = "ok" /\ trace[k - 1].op # trace[k].op
    /\ pc \in {"create", "switch"} => TmuxIdx # {}
    /\ (Finished /\ targetDir # Empty) => TmuxIdx # {}

C10_Witness ==
    /\ pc = "done"
    /\ Len(trace) >= 3
    /\ trace[Len(trace) - 2].op = "has-session" /\ trace[Len(trace) - 2].res = "fail"
    /\ trace[Len(trace) - 1].op = "new-session" /\ trace[Len(trace) - 1].res = "ok"
    /\ trace[Len(trace)].op \in {"attach", "switch-client"}

====
